---- MODULE Spec2Model ----
(***************************************************************************)
(* Model of npm-package-lock-add-resolved (src/main.mjs): the walk over    *)
(* package-lock.json that fills the missing `resolved` and `integrity`     *)
(* fields from registry metadata, followed by the write of the lock file   *)
(* and the `npm install` validation step.                                  *)
(*                                                                         *)
(* A lock entry is a node 1..MaxNodes; `packageLock` holds the two         *)
(* top-level mappings (as key-ordered sequences of nodes, the order of     *)
(* `for ... in`) and the entries.  An async call chain is a task with a    *)
(* stack of fillAllResolved frames; a registry request is in `inflight`    *)
(* from the moment fetchJson issues it until its response is handled.      *)
(***************************************************************************)
EXTENDS Integers, Sequences, FiniteSets, TLC

\* ---------------------------------------------------------------- bounds
MaxNodes == 3

Nodes == 1..MaxNodes

\* ------------------------------------------------------ JavaScript values
\* A JS string-or-undefined is a TLA+ string; Undefined stands for the value
\* `undefined` (and for an absent property, which reads as undefined).
Undefined == "<undefined>"

\* An integrity string "<alg>-<base64>" is the pair of its algorithm and the
\* sequence of its base64 characters (0..63, 64 for the padding "=").
UndefinedIntegrity == [alg |-> "<undefined>", digest |-> <<>>]

EmptyIntegrity == [alg |-> "", digest |-> <<>>]

\* JS truthiness of a string-or-undefined.
Truthy(s) == s # Undefined /\ s # ""

TruthyIntegrity(v) == v # UndefinedIntegrity /\ v # EmptyIntegrity

\* --------------------------------------------------------- getIntegrityFromDist
\* Buffer.from(str, 'hex'): decodes pairs of hex digits and stops at the
\* first pair that is not two hex digits; a trailing single digit is dropped.
\* A hex digit is its value 0..15; 16 stands for any non-hex character.
RECURSIVE HexDecode(_)
HexDecode(h) ==
    IF Len(h) < 2 THEN <<>>
    ELSE IF h[1] > 15 \/ h[2] > 15 THEN <<>>
    ELSE <<h[1] * 16 + h[2]>> \o HexDecode(SubSeq(h, 3, Len(h)))

\* buffer.toString('base64')
RECURSIVE Base64Encode(_)
Base64Encode(b) ==
    IF Len(b) = 0 THEN <<>>
    ELSE IF Len(b) = 1 THEN <<b[1] \div 4, (b[1] % 4) * 16, 64, 64>>
    ELSE IF Len(b) = 2 THEN
        <<b[1] \div 4, (b[1] % 4) * 16 + (b[2] \div 16), (b[2] % 16) * 4, 64>>
    ELSE <<b[1] \div 4, (b[1] % 4) * 16 + (b[2] \div 16),
           (b[2] % 16) * 4 + (b[3] \div 64), b[3] % 64>>
         \o Base64Encode(SubSeq(b, 4, Len(b)))

\* A dist is [tarball, integrity, shasum]; an absent shasum is the empty
\* sequence (falsy, like the empty string).
getIntegrityFromDist(dist) ==
    IF TruthyIntegrity(dist.integrity) THEN dist.integrity
    ELSE IF dist.shasum # <<>>
         THEN [alg |-> "sha1", digest |-> Base64Encode(HexDecode(dist.shasum))]
         ELSE UndefinedIntegrity

\* ------------------------------------------------------- registry answers
TarballUrl == "https://registry.npmjs.com/pkg/-/pkg-1.0.0.tgz"

SriValue == [alg |-> "sha512", digest |-> <<0, 0, 0, 64>>]

HexShasum == <<10, 10, 11, 11, 12, 12>>

DistFull == [tarball |-> TarballUrl, integrity |-> SriValue, shasum |-> HexShasum]

DistShasumOnly ==
    [tarball |-> TarballUrl, integrity |-> UndefinedIntegrity, shasum |-> HexShasum]

DistTarballOnly ==
    [tarball |-> TarballUrl, integrity |-> UndefinedIntegrity, shasum |-> <<>>]

DistEmpty == [tarball |-> Undefined, integrity |-> UndefinedIntegrity, shasum |-> <<>>]

RegistryDists == {DistFull, DistShasumOnly, DistTarballOnly, DistEmpty}

\* Version metadata: a document with or without a `dist` member.
NoDistDoc == [hasDist |-> FALSE, dist |-> DistEmpty]

VersionDocs == {[hasDist |-> TRUE, dist |-> d] : d \in RegistryDists} \cup {NoDistDoc}

EntryVersion == "1.0.0"

\* Full package metadata: a `versions` map, here with EntryVersion or without.
FullDocs ==
    {[versions |-> [v \in {EntryVersion} |-> vd]] : vd \in VersionDocs}
    \cup {[versions |-> [v \in {} |-> NoDistDoc]]}

Statuses == {200, 401, 404, 500}

VersionResponses ==
    {[status |-> 200, body |-> d] : d \in VersionDocs}
    \cup {[status |-> s, body |-> NoDistDoc] : s \in Statuses \ {200}}

NoFullDoc == [versions |-> [v \in {} |-> NoDistDoc]]

FullResponses ==
    {[status |-> 200, body |-> d] : d \in FullDocs}
    \cup {[status |-> s, body |-> NoFullDoc] : s \in Statuses \ {200}}

\* fetchJson rejects on a status outside 2xx, with the status code attached.
FetchRejects(status) == status < 200 \/ status >= 300

\* ------------------------------------------------------------ lock entries
\* A key of a mapping (a package path) is the sequence of its "/"-separated
\* segments; the root key "" is the empty sequence.
RootKey == <<>>

\* The package names used for the entries: unscoped, scoped with a configured
\* registry, scoped without one.
NameOf(n) ==
    IF n % 3 = 1 THEN <<"a">>
    ELSE IF n % 3 = 2 THEN <<"@s", "b">>
    ELSE <<"@t", "c">>

\* `packages` keys are node_modules paths, `dependencies` keys are names.
PathOf(n, top) ==
    IF top = "packages" THEN <<"node_modules">> \o NameOf(n) ELSE NameOf(n)

\* What an entry looks like before the run.
EntryKinds == {"root", "link", "complete", "half", "missing"}

PriorResolved == "https://registry.npmjs.com/old/-/old-1.0.0.tgz"

PriorIntegrity == [alg |-> "sha512", digest |-> <<1, 2, 3, 64>>]

\* The elements of a set of nodes in increasing order: the insertion order
\* of the keys, which is the order `for (const packagePath in list)` visits.
RECURSIVE SeqOfSet(_)
SeqOfSet(S) ==
    IF S = {} THEN <<>>
    ELSE LET m == CHOOSE x \in S : \A y \in S : x <= y
         IN <<m>> \o SeqOfSet(S \ {m})

MakeEntry(n, kind, top, children) ==
    [key        |-> IF kind = "root" THEN RootKey ELSE PathOf(n, top),
     link       |-> kind = "link",
     version    |-> EntryVersion,
     resolved   |-> IF kind \in {"complete", "half"} THEN PriorResolved ELSE Undefined,
     integrity  |-> IF kind = "complete" THEN PriorIntegrity ELSE UndefinedIntegrity,
     dependencies |-> children]

\* parent[n] = 0: n is an entry of the top-level mapping top[n];
\* otherwise n is an entry of the `dependencies` of parent[n].
ParentMaps == {f \in [Nodes -> 0..MaxNodes] : \A n \in Nodes : f[n] < n}

TopMaps(parent) ==
    {g \in [Nodes -> {"packages", "dependencies"}] :
        \A n \in Nodes : parent[n] # 0 => g[n] = g[parent[n]]}

MakeLock(parent, top, kinds) ==
    [packages     |-> SeqOfSet({n \in Nodes : parent[n] = 0 /\ top[n] = "packages"}),
     dependencies |-> SeqOfSet({n \in Nodes : parent[n] = 0 /\ top[n] = "dependencies"}),
     entries      |-> [n \in Nodes |->
                         MakeEntry(n, kinds[n], top[n],
                                   SeqOfSet({m \in Nodes : parent[m] = n}))]]

\* JSON.stringify(packageLock, null, 2): 2-space indentation, no trailing
\* newline; a property whose value is undefined is left out, which is how an
\* absent property is represented here already.
Stringify(lock) == [format |-> "indent2", lock |-> lock]

\* JSON.parse(oldContents)
Parse(contents) == contents.lock

\* The text of the file before the run is in the layout npm wrote it in, which
\* ends with a newline: not the text JSON.stringify prints.
OriginalFormats == {"npm"}

\* ------------------------------------------------- registry URLs, auth keys
\* A registry URL `<scheme>://<host>[:<port>]/<path>` is the record of its
\* parts as they are written; `slashes` is the number of trailing slashes.
\* An auth key `//<host>[:<port>]/<path>/` is the same record without scheme.
BuiltinRegistry ==
    [scheme |-> "https", host |-> "registry.npmjs.com", port |-> "",
     path |-> <<>>, slashes |-> 1]

ScopedExample ==
    [scheme |-> "https", host |-> "npm.scoped.example", port |-> "",
     path |-> <<>>, slashes |-> 1]

UrlPlain ==
    [scheme |-> "https", host |-> "npm.example", port |-> "",
     path |-> <<"reg">>, slashes |-> 1]

UrlDefaultPort ==
    [scheme |-> "https", host |-> "npm.example", port |-> "443",
     path |-> <<"reg">>, slashes |-> 1]

UrlOtherPort ==
    [scheme |-> "https", host |-> "npm.example", port |-> "8080",
     path |-> <<"reg">>, slashes |-> 2]

UrlUpperHost ==
    [scheme |-> "https", host |-> "NPM.example", port |-> "",
     path |-> <<"reg">>, slashes |-> 0]

RegistryUrls == {UrlPlain, UrlDefaultPort, UrlOtherPort, UrlUpperHost}

\* normalizeRegistryUrl: exactly one trailing slash, on a URL or on a key.
normalizeRegistryUrl(url) == [url EXCEPT !.slashes = 1]

\* new URL(registryUrl).hostname is the host in lower case.
Hostname(host) == IF host = "NPM.example" THEN "npm.example" ELSE host

\* new URL(registryUrl).port is empty when the port is the scheme's default.
Port(scheme, port) ==
    IF (scheme = "https" /\ port = "443") \/ (scheme = "http" /\ port = "80")
    THEN ""
    ELSE port

\* getAuthKeyFromRegistryUrl of a URL that does not start with "//".
getAuthKeyFromRegistryUrl(registryUrl) ==
    normalizeRegistryUrl(
        [host |-> Hostname(registryUrl.host),
         port |-> Port(registryUrl.scheme, registryUrl.port),
         path |-> registryUrl.path,
         slashes |-> IF registryUrl.path = <<>> THEN 1 ELSE registryUrl.slashes])

\* The text `//<host>[:<port>]/<path>/` written before `:_authToken=` for
\* the registry at url: match[1] of the line.
KeyTextOf(url) ==
    [host |-> url.host, port |-> url.port, path |-> url.path,
     slashes |-> IF url.slashes = 0 THEN 1 ELSE url.slashes]

\* ------------------------------------------------------------ .npmrc lines
MaxLines == 2

\* Mutation: the project-level file read before the user-level file.
NpmrcPathsProjectFirst == <<"project", "home">>

\* npmrcPaths: the user-level file, then the project-level file.
NpmrcPaths == <<"home", "project">>

\* The values a source writes, told apart by the source.
TokenOf(src) == IF src = "home" THEN "home-token" ELSE "project-token"

\* "u" and "v"
UsernameOf(src) == IF src = "home" THEN <<117>> ELSE <<118>>

\* "cHc=" (the password "pw") and "cXc=" (the password "qw")
PasswordOf(src) == IF src = "home" THEN <<28, 7, 28, 64>> ELSE <<28, 23, 28, 64>>

\* The lines loadNpmrcRegistries tells apart, by the branch that takes them.
LinesOf(src) ==
    {[kind |-> "registry", url |-> u] : u \in RegistryUrls}
    \cup {[kind |-> "scoped", scope |-> "@s", url |-> u] : u \in {UrlPlain, UrlOtherPort}}
    \cup {[kind |-> "authToken", key |-> KeyTextOf(u), token |-> TokenOf(src)] :
             u \in RegistryUrls}
    \cup {[kind |-> "defaultAuthToken", token |-> TokenOf(src)]}
    \cup {[kind |-> "username", key |-> KeyTextOf(UrlPlain), username |-> UsernameOf(src)]}
    \cup {[kind |-> "password", key |-> KeyTextOf(UrlPlain), password |-> PasswordOf(src)]}

\* The files: up to MaxLines lines; a missing file (ENOENT) reads as no line.
NpmrcFiles(src) ==
    UNION {[1..k -> LinesOf(src)] : k \in 0..MaxLines}

\* An empty store: no key.
EmptyStore == [k \in {} |-> ""]

\* store[key] = value
Put(store, key, value) ==
    [k \in DOMAIN store \cup {key} |-> IF k = key THEN value ELSE store[k]]

\* Buffer.from(str, 'base64'): four characters to three bytes, less one byte
\* for each padding character.
RECURSIVE Base64Decode(_)
Base64Decode(c) ==
    IF Len(c) < 4 THEN <<>>
    ELSE LET b1 == c[1] * 4 + (c[2] \div 16)
             b2 == (c[2] % 16) * 16 + (c[3] \div 4)
             b3 == (c[3] % 4) * 64 + c[4]
         IN (IF c[3] = 64 THEN <<b1>>
             ELSE IF c[4] = 64 THEN <<b1, b2>>
             ELSE <<b1, b2, b3>>)
            \o Base64Decode(SubSeq(c, 5, Len(c)))

\* No Authorization header.
NoHeader == [scheme |-> "none", token |-> "", basic |-> <<>>]

NoRequest == [name |-> <<>>, registry |-> BuiltinRegistry,
              key |-> KeyTextOf(BuiltinRegistry), authorization |-> NoHeader]

\* ---------------------------------------------------------------- state
VARIABLES
    defaultNpmRegistry,  \* main.mjs:11
    scopedRegistries,    \* main.mjs:12
    registryAuthTokens,  \* main.mjs:13
    registryUsernames,   \* main.mjs:14
    registryPasswords,   \* main.mjs:15
    npmrc,               \* the lines of the two .npmrc files
    loadPc,              \* position of loadNpmrcRegistries: file and line
    assigned,            \* every assignment loadNpmrcRegistries made, in order
    request,             \* the request fetchJson built last
    call,                \* a function applied on its own: which, to what
    returned,            \* what that call returned
    oldContents,         \* the text read from package-lock.json
    packageLock,         \* the parsed lock, mutated in place
    file,                \* package-lock.json on disk
    mainPc,              \* position of main()
    tasks,               \* async call chains: stacks of fillAllResolved frames
    inflight,            \* registry requests issued and not yet answered
    visited,             \* every entry the loop of a walk came to, in order
    fetchLog,            \* every request issued, in order
    fillResult,          \* the settled fillResolved call the walker resumes on
    unauthorizedAt,      \* Len(fetchLog) when the first 401 arrived, else 0
    allGood,             \* every answer so far was 200 with tarball and integrity
    writes,              \* number of writeFile calls on package-lock.json
    installStatus,       \* exit status of npm install, -1 before it ran
    outcome              \* settlement of the promise of main()

vars == <<defaultNpmRegistry, scopedRegistries, registryAuthTokens,
          registryUsernames, registryPasswords, npmrc, loadPc, assigned, request,
          call, returned, oldContents, packageLock, file,
          mainPc, tasks, inflight, visited, fetchLog, fillResult, unauthorizedAt,
          allGood, writes, installStatus, outcome>>

\* The registry configuration and what loading and using it leaves behind.
config == <<defaultNpmRegistry, scopedRegistries, registryAuthTokens,
            registryUsernames, registryPasswords, npmrc, loadPc, assigned, request>>

\* fillResult: the entry of the call, the request answered last ("version" or
\* "full"), the status of that answer, whether its body held metadata for
\* p.version and which, how the call ended ("returned" or "threw") and with
\* what statusCode on the error, and the entry's two fields before the call.
NoFill == [node |-> 0, via |-> "none", status |-> 0, hasVersion |-> FALSE,
           vm |-> NoDistDoc, ended |-> "none", statusCode |-> 0,
           before |-> [resolved |-> Undefined, integrity |-> UndefinedIntegrity]]

\* A function applied on its own.
units == <<call, returned>>

NoCall == [fn |-> "none"]

NotReturned == [done |-> FALSE]

\* The loader is past both files.
Loaded == [file |-> Len(NpmrcPaths) + 1, line |-> 1]

\* The walk starts from a loaded configuration: the built-in default
\* registry, one scoped registry, no credentials.
Init ==
    /\ defaultNpmRegistry = BuiltinRegistry
    /\ scopedRegistries = [s \in {"@s"} |-> ScopedExample]
    /\ registryAuthTokens = EmptyStore
    /\ registryUsernames = EmptyStore
    /\ registryPasswords = EmptyStore
    /\ npmrc = [src \in {"home", "project"} |-> <<>>]
    /\ loadPc = Loaded
    /\ assigned = <<>>
    /\ request = NoRequest
    /\ call = NoCall
    /\ returned = NotReturned
    /\ \E parent \in ParentMaps :
         \E top \in TopMaps(parent), kinds \in [Nodes -> EntryKinds],
            fmt \in OriginalFormats :
            \* the root key "" is a key of a top-level mapping
            /\ \A n \in Nodes : kinds[n] = "root" => parent[n] = 0
            \* at most one entry has `resolved` without `integrity`
            /\ \A n, m \in Nodes : (kinds[n] = "half" /\ kinds[m] = "half") => n = m
            /\ oldContents = [format |-> fmt, lock |-> MakeLock(parent, top, kinds)]
            /\ packageLock = MakeLock(parent, top, kinds)
    /\ file = oldContents
    /\ mainPc = "packages"
    /\ tasks = <<[stack |-> <<>>, st |-> "running"]>>
    /\ inflight = {}
    /\ visited = <<>>
    /\ fetchLog = <<>>
    /\ fillResult = NoFill
    /\ unauthorizedAt = 0
    /\ allGood = TRUE
    /\ writes = 0
    /\ installStatus = -1
    /\ outcome = "pending"

\* ------------------------------------------------------------ fillResolved
\* packagePath.replace(/^.*node_modules\/(?=.+?$)/, ""): drops everything up
\* to and including the last "node_modules/" that something follows.
PackageName(path) ==
    LET cut == {j \in 1..Len(path) : path[j] = "node_modules" /\ j < Len(path)}
    IN IF cut = {} THEN path
       ELSE SubSeq(path, (CHOOSE j \in cut : \A k \in cut : k <= j) + 1, Len(path))

\* name.startsWith('@'), for the name segments in use.
StartsWithAt(name) == Len(name) > 0 /\ name[1] \in {"@s", "@t"}

\* The scoped registry of the name's scope if one is configured, else the
\* default registry.
RegistryToUse(name) ==
    IF StartsWithAt(name) /\ name[1] \in DOMAIN scopedRegistries
    THEN scopedRegistries[name[1]]
    ELSE defaultNpmRegistry

\* `${registryToUse}${name}/${p.version}` and `${registryToUse}${name}`
SpecificVersionMetadataUrl(registry, name, version) == <<registry>> \o name \o <<version>>

FullPackageMetadataUrl(registry, name) == <<registry>> \o name

\* The final validation: throws unless both fields are truthy.
FinalValidation(resolved, integrity) ==
    IF ~Truthy(resolved) THEN "threw"
    ELSE IF ~TruthyIntegrity(integrity) THEN "threw"
    ELSE "returned"

FillOutcome(resolved, integrity, ended, statusCode) ==
    [resolved |-> resolved, integrity |-> integrity, ended |-> ended,
     statusCode |-> statusCode]

\* Both fields are assigned from the dist, then validated.
AssignFromDist(dist) ==
    FillOutcome(dist.tarball, getIntegrityFromDist(dist),
                FinalValidation(dist.tarball, getIntegrityFromDist(dist)), 0)

\* Mutation: a fillResolved that tries the full metadata after every failed
\* version-specific request but a 401.
VersionOutcomeFallbackOnAnyFailure(p, resp) ==
    IF FetchRejects(resp.status) THEN
        IF resp.status = 401
        THEN FillOutcome(p.resolved, p.integrity, "threw", 401)
        ELSE FillOutcome(p.resolved, p.integrity, "fallback", resp.status)
    ELSE IF ~resp.body.hasDist
    THEN FillOutcome(p.resolved, p.integrity, "threw", 0)
    ELSE AssignFromDist(resp.body.dist)

\* What fillResolved does with the answer to the version-specific request.
\* statusCode 0 stands for an error without a statusCode property.
VersionOutcome(p, resp) ==
    IF FetchRejects(resp.status) THEN
        IF resp.status = 401
        THEN FillOutcome(p.resolved, p.integrity, "threw", 401)
        ELSE IF resp.status = 404
        THEN FillOutcome(p.resolved, p.integrity, "fallback", 404)
        ELSE FillOutcome(p.resolved, p.integrity, "threw", 0)
    ELSE IF ~resp.body.hasDist
    THEN \* reading .tarball of undefined throws a TypeError inside the try
         FillOutcome(p.resolved, p.integrity, "threw", 0)
    ELSE AssignFromDist(resp.body.dist)

\* The dist of p.version in the full metadata passes the check of line 309.
UsableDist(vm) ==
    /\ vm.hasDist
    /\ \/ Truthy(vm.dist.tarball)
       \/ TruthyIntegrity(vm.dist.integrity)
       \/ vm.dist.shasum # <<>>

\* Mutation: the fallback reading `dist` of the full document itself, which
\* has none, instead of versions[p.version].dist.
FullOutcomeTopLevelDist(p, resp) == FillOutcome(p.resolved, p.integrity, "threw", 0)

\* What fillResolved does with the answer to the full-metadata request: every
\* failure, a 401 included, is rethrown as a new Error without statusCode.
FullOutcome(p, resp) ==
    IF FetchRejects(resp.status)
    THEN FillOutcome(p.resolved, p.integrity, "threw", 0)
    ELSE IF p.version \notin DOMAIN resp.body.versions
    THEN FillOutcome(p.resolved, p.integrity, "threw", 0)
    ELSE IF ~UsableDist(resp.body.versions[p.version])
    THEN FillOutcome(p.resolved, p.integrity, "threw", 0)
    ELSE AssignFromDist(resp.body.versions[p.version].dist)

\* ---------------------------------------------------------- fillAllResolved
\* Mutation: the walker without its check of `link`.
IsLinkedNever(p) == FALSE

IsLinked(p) == p.link = TRUE

\* Mutation: the walker without its check for an already complete entry.
IsCompleteNever(p) == FALSE

IsComplete(p) == Truthy(p.resolved) /\ TruthyIntegrity(p.integrity)

\* The entries the loop passes over with `continue`.
Skips(p) == p.key = RootKey \/ IsLinked(p) \/ IsComplete(p)

\* Mutation: a walker that lets the error of fillResolved through.
WalkerCatchesNothing(statusCode) == FALSE

\* The catch around fillResolved catches every error, whatever its statusCode.
WalkerCatches(statusCode) == TRUE

\* Mutation: the nested walk started without `await`.
NestedWalkNotAwaited == FALSE

\* The nested walk is awaited.
AwaitsNestedWalk == TRUE

Frame(list, recursive) ==
    [list |-> list, i |-> 1, recursive |-> recursive, phase |-> "loop"]

IsMain(t) == t = 1

TopFrame(t) == tasks[t].stack[Len(tasks[t].stack)]

CurrentNode(t) == TopFrame(t).list[TopFrame(t).i]

Running(t) == tasks[t].st = "running" /\ tasks[t].stack # <<>>

AtEntry(t) ==
    /\ Running(t)
    /\ TopFrame(t).phase = "loop"
    /\ TopFrame(t).i <= Len(TopFrame(t).list)

\* Mutation: a loop that stays on the key it is at.
AdvancedStaying(t) ==
    [tasks[t].stack EXCEPT ![Len(tasks[t].stack)] =
        [TopFrame(t) EXCEPT !.phase = "loop"]]

\* The task's stack with its top frame moved to the next key of its list.
Advanced(t) ==
    [tasks[t].stack EXCEPT ![Len(tasks[t].stack)] =
        [TopFrame(t) EXCEPT !.i = @ + 1, !.phase = "loop"]]

history == <<fetchLog, unauthorizedAt, allGood>>

disk == <<oldContents, file, writes, installStatus>>

\* `continue`: the root key, a linked entry, a complete entry.
SkipEntry(t) ==
    /\ AtEntry(t)
    /\ Skips(packageLock.entries[CurrentNode(t)])
    /\ visited' = Append(visited, CurrentNode(t))
    /\ tasks' = [tasks EXCEPT ![t].stack = Advanced(t)]
    /\ UNCHANGED <<config, units, packageLock, mainPc, inflight, history, fillResult,
                   disk, outcome>>

\* fillResolved up to its first await: the version-specific request is issued.
StartFill(t) ==
    /\ AtEntry(t)
    /\ ~Skips(packageLock.entries[CurrentNode(t)])
    /\ LET n == CurrentNode(t)
           p == packageLock.entries[n]
           name == PackageName(p.key)
           url == SpecificVersionMetadataUrl(RegistryToUse(name), name, p.version)
       IN /\ inflight' = inflight \cup
                {[task |-> t, node |-> n, kind |-> "version", url |-> url, after |-> 0,
                  before |-> [resolved |-> p.resolved, integrity |-> p.integrity]]}
          /\ fetchLog' = Append(fetchLog, [node |-> n, kind |-> "version", url |-> url])
          /\ visited' = Append(visited, n)
    /\ tasks' = [tasks EXCEPT ![t].st = "awaiting"]
    /\ UNCHANGED <<config, units, packageLock, mainPc, fillResult, unauthorizedAt,
                   allGood, disk, outcome>>

GoodDist(vm) ==
    vm.hasDist /\ Truthy(vm.dist.tarball) /\ TruthyIntegrity(vm.dist.integrity)

NoteAnswer(status, good) ==
    /\ unauthorizedAt' =
          IF unauthorizedAt = 0 /\ status = 401 THEN Len(fetchLog) ELSE unauthorizedAt
    /\ allGood' = (allGood /\ good)

\* The end of one fillResolved call: the fields it assigned, then either the
\* walker's catch (or the normal return) and on to line 370, or the error
\* leaving the walk through every awaiting caller up to main().
FinishFill(r, o, via, status, hasVersion, vm) ==
    /\ packageLock' = [packageLock EXCEPT
          !.entries[r.node].resolved = o.resolved,
          !.entries[r.node].integrity = o.integrity]
    /\ fillResult' = [node |-> r.node, via |-> via, status |-> status,
                      hasVersion |-> hasVersion, vm |-> vm, ended |-> o.ended,
                      statusCode |-> o.statusCode, before |-> r.before]
    /\ inflight' = inflight \ {r}
    /\ IF o.ended = "threw" /\ ~WalkerCatches(o.statusCode)
       THEN /\ tasks' = [tasks EXCEPT ![r.task] = [stack |-> <<>>, st |-> "failed"]]
            /\ mainPc' = IF IsMain(r.task) THEN "done" ELSE mainPc
            /\ outcome' = IF IsMain(r.task) THEN "rejected" ELSE outcome
       ELSE /\ tasks' = [tasks EXCEPT ![r.task] =
                  [stack |-> [tasks[r.task].stack EXCEPT ![Len(tasks[r.task].stack)] =
                                 [TopFrame(r.task) EXCEPT !.phase = "afterFill"]],
                   st |-> "running"]]
            /\ UNCHANGED <<mainPc, outcome>>

\* The answer to a version-specific request other than 404.
VersionResponse(r) ==
    /\ r \in inflight
    /\ r.kind = "version"
    /\ \E resp \in VersionResponses :
         LET o == VersionOutcome(packageLock.entries[r.node], resp)
         IN /\ o.ended # "fallback"
            /\ NoteAnswer(resp.status, resp.status = 200 /\ GoodDist(resp.body))
            /\ FinishFill(r, o, "version", resp.status, TRUE, resp.body)
    /\ UNCHANGED <<config, units, visited, fetchLog, disk>>

\* 404 for the version: the full package metadata is requested.  The request
\* in flight keeps, as `after`, the status that led to it.
NotFoundFallback(r) ==
    /\ r \in inflight
    /\ r.kind = "version"
    /\ \E resp \in VersionResponses :
         LET p == packageLock.entries[r.node]
             name == PackageName(p.key)
             url == FullPackageMetadataUrl(RegistryToUse(name), name)
         IN /\ VersionOutcome(p, resp).ended = "fallback"
            /\ NoteAnswer(resp.status, FALSE)
            /\ inflight' = (inflight \ {r}) \cup
                  {[r EXCEPT !.kind = "full", !.url = url, !.after = resp.status]}
            /\ fetchLog' = Append(fetchLog, [node |-> r.node, kind |-> "full", url |-> url])
    /\ UNCHANGED <<config, units, packageLock, mainPc, tasks, visited, fillResult, disk,
                   outcome>>

\* The answer to the full-metadata request.
FullResponse(r) ==
    /\ r \in inflight
    /\ r.kind = "full"
    /\ \E resp \in FullResponses :
         LET p == packageLock.entries[r.node]
             has == p.version \in DOMAIN resp.body.versions
             vm == IF has THEN resp.body.versions[p.version] ELSE NoDistDoc
         IN /\ NoteAnswer(resp.status, resp.status = 200 /\ has /\ GoodDist(vm))
            /\ FinishFill(r, FullOutcome(p, resp), "full", resp.status, has, vm)
    /\ UNCHANGED <<config, units, visited, fetchLog, disk>>

HasNested(t) ==
    TopFrame(t).recursive /\ packageLock.entries[CurrentNode(t)].dependencies # <<>>

\* Line 370 with nested dependencies: the walk of p.dependencies starts, on
\* the caller's own chain when it is awaited.  The walker has resumed from
\* its await of fillResolved, whose settlement is consumed.
Descend(t) ==
    /\ Running(t)
    /\ TopFrame(t).phase = "afterFill"
    /\ HasNested(t)
    /\ LET nested == Frame(packageLock.entries[CurrentNode(t)].dependencies,
                           TopFrame(t).recursive)
       IN IF AwaitsNestedWalk
          THEN tasks' = [tasks EXCEPT ![t].stack = Append(Advanced(t), nested)]
          ELSE tasks' = Append([tasks EXCEPT ![t].stack = Advanced(t)],
                               [stack |-> <<nested>>, st |-> "running"])
    /\ fillResult' = NoFill
    /\ UNCHANGED <<config, units, packageLock, mainPc, inflight, visited, history, disk, outcome>>

\* Line 370 without: on to the next key.
NextEntry(t) ==
    /\ Running(t)
    /\ TopFrame(t).phase = "afterFill"
    /\ ~HasNested(t)
    /\ tasks' = [tasks EXCEPT ![t].stack = Advanced(t)]
    /\ fillResult' = NoFill
    /\ UNCHANGED <<config, units, packageLock, mainPc, inflight, visited, history, disk, outcome>>

\* The loop is over: fillAllResolved returns to whoever awaits it.
ReturnFromWalk(t) ==
    /\ Running(t)
    /\ TopFrame(t).phase = "loop"
    /\ TopFrame(t).i > Len(TopFrame(t).list)
    /\ LET rest == SubSeq(tasks[t].stack, 1, Len(tasks[t].stack) - 1)
       IN /\ tasks' = [tasks EXCEPT ![t] =
                 [stack |-> rest,
                  st |-> IF rest = <<>> /\ ~IsMain(t) THEN "done" ELSE "running"]]
          /\ mainPc' = IF rest = <<>> /\ IsMain(t)
                       THEN (IF mainPc = "awaitPackages" THEN "dependencies" ELSE "write")
                       ELSE mainPc
    /\ UNCHANGED <<config, units, packageLock, inflight, visited, history, fillResult, disk, outcome>>

\* -------------------------------------------------------------------- main
\* await fillAllResolved(packageLock.packages ?? {}, false)
WalkPackages ==
    /\ mainPc = "packages"
    /\ tasks' = [tasks EXCEPT ![1].stack = <<Frame(packageLock.packages, FALSE)>>]
    /\ mainPc' = "awaitPackages"
    /\ UNCHANGED <<config, units, packageLock, inflight, visited, history, fillResult, disk, outcome>>

\* await fillAllResolved(packageLock.dependencies ?? {}, true)
WalkDependencies ==
    /\ mainPc = "dependencies"
    /\ tasks' = [tasks EXCEPT ![1].stack = <<Frame(packageLock.dependencies, TRUE)>>]
    /\ mainPc' = "awaitDependencies"
    /\ UNCHANGED <<config, units, packageLock, inflight, visited, history, fillResult, disk, outcome>>

\* Mutation: a main() that writes only when the walk changed the lock.
WriteLockIfResolved ==
    /\ mainPc = "write"
    /\ IF packageLock # Parse(oldContents)
       THEN file' = Stringify(packageLock) /\ writes' = writes + 1
       ELSE UNCHANGED <<file, writes>>
    /\ mainPc' = "install"
    /\ UNCHANGED <<config, units, oldContents, packageLock, tasks, inflight, visited, history,
                   fillResult, installStatus, outcome>>

\* await writeFile("package-lock.json", JSON.stringify(packageLock, null, 2))
WriteLock ==
    /\ mainPc = "write"
    /\ file' = Stringify(packageLock)
    /\ writes' = writes + 1
    /\ mainPc' = "install"
    /\ UNCHANGED <<config, units, oldContents, packageLock, tasks, inflight, visited, history,
                   fillResult, installStatus, outcome>>

\* Exit statuses of `npm install`: success and failure.
ExitStatuses == {0, 1}

\* spawnSync reports the child's exit status in the object it returns; it
\* does not throw when the command exits with a non-zero status.
SpawnSyncThrows(status) == FALSE

\* The try around spawnSync and its catch, which restores the old contents.
NpmInstall ==
    /\ mainPc = "install"
    /\ \E status \in ExitStatuses :
         /\ installStatus' = status
         /\ IF SpawnSyncThrows(status)
            THEN /\ file' = oldContents
                 /\ writes' = writes + 1
                 /\ outcome' = "rejected"
            ELSE /\ outcome' = "fulfilled"
                 /\ UNCHANGED <<file, writes>>
    /\ mainPc' = "done"
    /\ UNCHANGED <<config, units, oldContents, packageLock, tasks, inflight, visited, history,
                   fillResult>>

Next ==
    \/ WalkPackages
    \/ WalkDependencies
    \/ WriteLock
    \/ NpmInstall
    \/ \E t \in DOMAIN tasks : SkipEntry(t)
    \/ \E t \in DOMAIN tasks : StartFill(t)
    \/ \E t \in DOMAIN tasks : Descend(t)
    \/ \E t \in DOMAIN tasks : NextEntry(t)
    \/ \E t \in DOMAIN tasks : ReturnFromWalk(t)
    \/ \E r \in inflight : VersionResponse(r)
    \/ \E r \in inflight : NotFoundFallback(r)
    \/ \E r \in inflight : FullResponse(r)

Spec == Init /\ [][Next]_vars

\* The run under the condition that every request issued is answered and
\* that a continuation that can run does run: no step that stays possible
\* is put off for ever.
FairSpec == Spec /\ WF_vars(Next)

\* ------------------------------------------------------ loadNpmrcRegistries
\* The run from its start: loadNpmrcRegistries reads the two files line by
\* line, then requests are built from what it stored.
SomeLock ==
    MakeLock([n \in Nodes |-> 0], [n \in Nodes |-> "packages"],
             [n \in Nodes |-> "complete"])

InitNpmrc ==
    /\ defaultNpmRegistry = BuiltinRegistry
    /\ scopedRegistries = EmptyStore
    /\ registryAuthTokens = EmptyStore
    /\ registryUsernames = EmptyStore
    /\ registryPasswords = EmptyStore
    /\ \E home \in NpmrcFiles("home"), project \in NpmrcFiles("project") :
          npmrc = [src \in {"home", "project"} |->
                      IF src = "home" THEN home ELSE project]
    /\ loadPc = [file |-> 1, line |-> 1]
    /\ assigned = <<>>
    /\ request = NoRequest
    /\ call = NoCall
    /\ returned = NotReturned
    /\ oldContents = [format |-> "npm", lock |-> SomeLock]
    /\ packageLock = SomeLock
    /\ file = oldContents
    /\ mainPc = "loadNpmrc"
    /\ tasks = <<[stack |-> <<>>, st |-> "running"]>>
    /\ inflight = {}
    /\ visited = <<>>
    /\ fetchLog = <<>>
    /\ fillResult = NoFill
    /\ unauthorizedAt = 0
    /\ allGood = TRUE
    /\ writes = 0
    /\ installStatus = -1
    /\ outcome = "pending"

walk == <<oldContents, packageLock, file, mainPc, tasks, inflight, visited, fetchLog,
          fillResult, unauthorizedAt, allGood, writes, installStatus, outcome>>

\* The file being read and the line the loop is at.
CurrentPath == NpmrcPaths[loadPc.file]

CurrentLine == npmrc[CurrentPath][loadPc.line]

AtLine(kind) ==
    /\ mainPc = "loadNpmrc"
    /\ loadPc.file <= Len(NpmrcPaths)
    /\ loadPc.line <= Len(npmrc[CurrentPath])
    /\ CurrentLine.kind = kind

\* On to the next line, with the assignment just made on record.
Assigned(store, key, value) ==
    /\ assigned' = Append(assigned, [source |-> CurrentPath, store |-> store,
                                      key |-> key, value |-> value])
    /\ loadPc' = [loadPc EXCEPT !.line = @ + 1]

\* Mutation: a registry= line that takes the token of the old default
\* registry along to the key of the new one.
SetDefaultRegistryMovingToken ==
    /\ AtLine("registry")
    /\ defaultNpmRegistry' = normalizeRegistryUrl(CurrentLine.url)
    /\ registryAuthTokens' =
          IF getAuthKeyFromRegistryUrl(defaultNpmRegistry) \in DOMAIN registryAuthTokens
          THEN Put(registryAuthTokens,
                   getAuthKeyFromRegistryUrl(normalizeRegistryUrl(CurrentLine.url)),
                   registryAuthTokens[getAuthKeyFromRegistryUrl(defaultNpmRegistry)])
          ELSE registryAuthTokens
    /\ Assigned("defaultNpmRegistry", <<>>, normalizeRegistryUrl(CurrentLine.url))
    /\ UNCHANGED <<scopedRegistries, registryUsernames,
                   registryPasswords, npmrc, request, walk, units>>

\* registry=<url>
SetDefaultRegistry ==
    /\ AtLine("registry")
    /\ defaultNpmRegistry' = normalizeRegistryUrl(CurrentLine.url)
    /\ Assigned("defaultNpmRegistry", <<>>, normalizeRegistryUrl(CurrentLine.url))
    /\ UNCHANGED <<scopedRegistries, registryAuthTokens, registryUsernames,
                   registryPasswords, npmrc, request, walk, units>>

\* @scope:registry=<url>
SetScopedRegistry ==
    /\ AtLine("scoped")
    /\ scopedRegistries' =
          Put(scopedRegistries, CurrentLine.scope, normalizeRegistryUrl(CurrentLine.url))
    /\ Assigned("scopedRegistries", <<CurrentLine.scope>>,
                normalizeRegistryUrl(CurrentLine.url))
    /\ UNCHANGED <<defaultNpmRegistry, registryAuthTokens, registryUsernames,
                   registryPasswords, npmrc, request, walk, units>>

\* //host/path/:_authToken=<token>
SetAuthToken ==
    /\ AtLine("authToken")
    /\ registryAuthTokens' =
          Put(registryAuthTokens, normalizeRegistryUrl(CurrentLine.key), CurrentLine.token)
    /\ Assigned("registryAuthTokens", <<normalizeRegistryUrl(CurrentLine.key)>>,
                CurrentLine.token)
    /\ UNCHANGED <<defaultNpmRegistry, scopedRegistries, registryUsernames,
                   registryPasswords, npmrc, request, walk, units>>

\* _authToken=<token>: stored under the key of the default registry as it is
\* when the line is read.
SetDefaultAuthToken ==
    /\ AtLine("defaultAuthToken")
    /\ registryAuthTokens' =
          Put(registryAuthTokens, getAuthKeyFromRegistryUrl(defaultNpmRegistry),
              CurrentLine.token)
    /\ Assigned("registryAuthTokens", <<getAuthKeyFromRegistryUrl(defaultNpmRegistry)>>,
                CurrentLine.token)
    /\ UNCHANGED <<defaultNpmRegistry, scopedRegistries, registryUsernames,
                   registryPasswords, npmrc, request, walk, units>>

\* //host/path/:username=<username>
SetUsername ==
    /\ AtLine("username")
    /\ registryUsernames' =
          Put(registryUsernames, normalizeRegistryUrl(CurrentLine.key),
              CurrentLine.username)
    /\ Assigned("registryUsernames", <<normalizeRegistryUrl(CurrentLine.key)>>,
                CurrentLine.username)
    /\ UNCHANGED <<defaultNpmRegistry, scopedRegistries, registryAuthTokens,
                   registryPasswords, npmrc, request, walk, units>>

\* //host/path/:_password=<base64>
SetPassword ==
    /\ AtLine("password")
    /\ registryPasswords' =
          Put(registryPasswords, normalizeRegistryUrl(CurrentLine.key),
              CurrentLine.password)
    /\ Assigned("registryPasswords", <<normalizeRegistryUrl(CurrentLine.key)>>,
                CurrentLine.password)
    /\ UNCHANGED <<defaultNpmRegistry, scopedRegistries, registryAuthTokens,
                   registryUsernames, npmrc, request, walk, units>>

\* The lines of a file are over: on to the next of npmrcPaths.
NextNpmrcPath ==
    /\ mainPc = "loadNpmrc"
    /\ loadPc.file <= Len(NpmrcPaths)
    /\ loadPc.line > Len(npmrc[CurrentPath])
    /\ loadPc' = [file |-> loadPc.file + 1, line |-> 1]
    /\ UNCHANGED <<defaultNpmRegistry, scopedRegistries, registryAuthTokens,
                   registryUsernames, registryPasswords, npmrc, assigned,
                   request, walk, units>>

\* Mutation: Basic tried before Bearer.
AuthorizationHeaderBasicFirst(key) ==
    IF /\ key \in DOMAIN registryUsernames /\ registryUsernames[key] # <<>>
       /\ key \in DOMAIN registryPasswords /\ registryPasswords[key] # <<>>
    THEN [scheme |-> "Basic", token |-> "",
          basic |-> Base64Encode(registryUsernames[key] \o <<58>>
                                 \o Base64Decode(registryPasswords[key]))]
    ELSE IF key \in DOMAIN registryAuthTokens /\ registryAuthTokens[key] # ""
    THEN [scheme |-> "Bearer", token |-> registryAuthTokens[key], basic |-> <<>>]
    ELSE NoHeader

\* The Authorization header fetchJson sets for an auth key.
AuthorizationHeader(key) ==
    IF key \in DOMAIN registryAuthTokens /\ registryAuthTokens[key] # ""
    THEN [scheme |-> "Bearer", token |-> registryAuthTokens[key], basic |-> <<>>]
    ELSE IF /\ key \in DOMAIN registryUsernames /\ registryUsernames[key] # <<>>
            /\ key \in DOMAIN registryPasswords /\ registryPasswords[key] # <<>>
    THEN [scheme |-> "Basic", token |-> "",
          basic |-> Base64Encode(registryUsernames[key] \o <<58>>
                                 \o Base64Decode(registryPasswords[key]))]
    ELSE NoHeader

\* The names requests are built for: unscoped and scoped.
FetchNames == {<<"a">>, <<"@s", "b">>}

\* fillResolved up to fetchJson, with the configuration as loaded: the
\* registry of the name, its auth key, the header of the request.
FetchJson ==
    /\ mainPc = "loadNpmrc"
    /\ loadPc = Loaded
    /\ \E name \in FetchNames :
         request' = [name |-> name,
                     registry |-> RegistryToUse(name),
                     key |-> getAuthKeyFromRegistryUrl(RegistryToUse(name)),
                     authorization |->
                        AuthorizationHeader(getAuthKeyFromRegistryUrl(RegistryToUse(name)))]
    /\ UNCHANGED <<defaultNpmRegistry, scopedRegistries, registryAuthTokens,
                   registryUsernames, registryPasswords, npmrc, loadPc, assigned,
                   walk, units>>

NextNpmrc ==
    \/ SetDefaultRegistry
    \/ SetScopedRegistry
    \/ SetAuthToken
    \/ SetDefaultAuthToken
    \/ SetUsername
    \/ SetPassword
    \/ NextNpmrcPath
    \/ FetchJson

SpecNpmrc == InitNpmrc /\ [][NextNpmrc]_vars

\* ------------------------------------------------- functions on their own
\* getIntegrityFromDist and the walker's derivation of the package name,
\* each applied once to an argument drawn from the sets below.
MaxShasum == 4

\* Characters of a shasum: the hex digits "a" and "c", and a character that
\* is no hex digit.
ShasumChars == {10, 12, 16}

Shasums == UNION {[1..k -> ShasumChars] : k \in 0..MaxShasum}

\* The `dist` arguments: absent, or with each combination of an integrity
\* (absent, empty, present) and a shasum.
DistArguments ==
    {NoDistDoc}
    \cup {[hasDist |-> TRUE,
           dist |-> [tarball |-> TarballUrl, integrity |-> i, shasum |-> h]] :
             i \in {UndefinedIntegrity, EmptyIntegrity, SriValue}, h \in Shasums}

\* An alias version "npm:<realName>@<spec>" is the pair of realName and spec.
AliasVersion == <<"npm:", "real", "1.0.0">>

\* The entries whose name is derived: with and without a `name` field, with
\* a plain and with an alias version, under each kind of key.
NameArguments ==
    {[key |-> k, name |-> n, version |-> v] :
        k \in {<<"a">>, <<"@s", "b">>, <<"node_modules", "a">>,
               <<"node_modules", "@s", "b">>,
               <<"node_modules", "a", "node_modules", "@s", "b">>},
        n \in {<<>>, <<"real">>},
        v \in {<<EntryVersion>>, AliasVersion}}

InitCalls ==
    /\ defaultNpmRegistry = BuiltinRegistry
    /\ scopedRegistries = [s \in {"@s"} |-> ScopedExample]
    /\ registryAuthTokens = EmptyStore
    /\ registryUsernames = EmptyStore
    /\ registryPasswords = EmptyStore
    /\ npmrc = [src \in {"home", "project"} |-> <<>>]
    /\ loadPc = Loaded
    /\ assigned = <<>>
    /\ request = NoRequest
    /\ \/ \E d \in DistArguments : call = [fn |-> "getIntegrityFromDist", dist |-> d]
       \/ \E p \in NameArguments : call = [fn |-> "packageName", p |-> p]
    /\ returned = NotReturned
    /\ oldContents = [format |-> "npm", lock |-> SomeLock]
    /\ packageLock = SomeLock
    /\ file = oldContents
    /\ mainPc = "call"
    /\ tasks = <<[stack |-> <<>>, st |-> "running"]>>
    /\ inflight = {}
    /\ visited = <<>>
    /\ fetchLog = <<>>
    /\ fillResult = NoFill
    /\ unauthorizedAt = 0
    /\ allGood = TRUE
    /\ writes = 0
    /\ installStatus = -1
    /\ outcome = "pending"

\* getIntegrityFromDist(dist), `if (!dist) return undefined` included.
CallGetIntegrityFromDist ==
    /\ call.fn = "getIntegrityFromDist"
    /\ ~returned.done
    /\ returned' =
          [done |-> TRUE,
           integrity |-> IF ~call.dist.hasDist THEN UndefinedIntegrity
                         ELSE getIntegrityFromDist(call.dist.dist)]
    /\ UNCHANGED <<config, walk, call>>

\* The name the walker passes to fillResolved for list[packagePath], and the
\* version-specific URL fillResolved builds from it.
CallPackageName ==
    /\ call.fn = "packageName"
    /\ ~returned.done
    /\ returned' =
          [done |-> TRUE,
           name |-> PackageName(call.p.key),
           url |-> SpecificVersionMetadataUrl(RegistryToUse(PackageName(call.p.key)),
                                              PackageName(call.p.key), call.p.version)]
    /\ UNCHANGED <<config, walk, call>>

NextCalls ==
    \/ CallGetIntegrityFromDist
    \/ CallPackageName

SpecCalls == InitCalls /\ [][NextCalls]_vars

\* ------------------------------------------------- the basic script, part_000
\* The script without registry configuration.  Its walker starts the walk of
\* p.dependencies without awaiting it, so several walks can be under way:
\* tasks holds one entry for the script itself and one for each walk started
\* that way.  JavaScript runs one of them at a time, up to its next await: a
\* task that has called a walk is "calling" until that walk reaches its
\* first await or returns.
BasicMetadataUrl(name, version) == <<BuiltinRegistry>> \o name \o <<version>>

\* The entries the loop passes over: the root key and complete entries.
BasicSkips(p) == p.key = RootKey \/ (Truthy(p.resolved) /\ TruthyIntegrity(p.integrity))

\* response.ok, and metadata.dist is there to read tarball and integrity from.
BasicFillSucceeds(resp) == ~FetchRejects(resp.status) /\ resp.body.hasDist

\* No JavaScript is running: an event can be handled.
EventLoopIdle == \A u \in DOMAIN tasks : tasks[u].st \notin {"running", "calling"}

\* Control goes back to the task that called the walk.
Released(ts) ==
    [u \in DOMAIN ts |->
        IF ts[u].st = "calling" THEN [ts[u] EXCEPT !.st = "running"] ELSE ts[u]]

BasicWalkPackages ==
    /\ mainPc = "packages"
    /\ tasks' = [tasks EXCEPT ![1].stack = <<Frame(packageLock.packages, TRUE)>>]
    /\ mainPc' = "awaitPackages"
    /\ UNCHANGED <<config, units, packageLock, inflight, visited, history, fillResult,
                   disk, outcome>>

BasicWalkDependencies ==
    /\ mainPc = "dependencies"
    /\ tasks' = [tasks EXCEPT ![1].stack = <<Frame(packageLock.dependencies, TRUE)>>]
    /\ mainPc' = "awaitDependencies"
    /\ UNCHANGED <<config, units, packageLock, inflight, visited, history, fillResult,
                   disk, outcome>>

BasicSkipEntry(t) ==
    /\ AtEntry(t)
    /\ BasicSkips(packageLock.entries[CurrentNode(t)])
    /\ visited' = Append(visited, CurrentNode(t))
    /\ tasks' = [tasks EXCEPT ![t].stack = Advanced(t)]
    /\ UNCHANGED <<config, units, packageLock, mainPc, inflight, history, fillResult,
                   disk, outcome>>

\* fillResolved up to `await fetch(metadataUrl)`.
BasicStartFill(t) ==
    /\ AtEntry(t)
    /\ ~BasicSkips(packageLock.entries[CurrentNode(t)])
    /\ LET n == CurrentNode(t)
           p == packageLock.entries[n]
           url == BasicMetadataUrl(PackageName(p.key), p.version)
       IN /\ inflight' = inflight \cup
                {[task |-> t, node |-> n, kind |-> "version", url |-> url, after |-> 0,
                  before |-> [resolved |-> p.resolved, integrity |-> p.integrity]]}
          /\ fetchLog' = Append(fetchLog, [node |-> n, kind |-> "version", url |-> url])
          /\ visited' = Append(visited, n)
    /\ tasks' = Released([tasks EXCEPT ![t].st = "awaiting"])
    /\ UNCHANGED <<config, units, packageLock, mainPc, fillResult, unauthorizedAt,
                   allGood, disk, outcome>>

\* The answer is ok: both fields are assigned as the dist has them.
BasicFilled(r) ==
    /\ r \in inflight
    /\ EventLoopIdle
    /\ \E resp \in VersionResponses :
         /\ BasicFillSucceeds(resp)
         /\ packageLock' = [packageLock EXCEPT
               !.entries[r.node].resolved = resp.body.dist.tarball,
               !.entries[r.node].integrity = resp.body.dist.integrity]
    /\ inflight' = inflight \ {r}
    /\ tasks' = [tasks EXCEPT ![r.task] =
          [stack |-> [tasks[r.task].stack EXCEPT ![1] =
                         [TopFrame(r.task) EXCEPT !.phase = "afterFill"]],
           st |-> "running"]]
    /\ UNCHANGED <<config, units, mainPc, visited, history, fillResult, disk, outcome>>

\* The process ends with an error.
BasicExit ==
    /\ tasks' = [u \in DOMAIN tasks |-> [stack |-> <<>>, st |-> "failed"]]
    /\ inflight' = {}
    /\ mainPc' = "done"
    /\ outcome' = "rejected"

\* assert(response.ok) fails, or metadata.dist is undefined: the walk rejects.
\* The rejection of an awaited walk rejects the script; that of a walk
\* nobody awaits is an unhandled rejection, on which Node ends the process
\* (the default since Node 15) or only prints a warning.
BasicFillThrows(r) ==
    /\ r \in inflight
    /\ EventLoopIdle
    /\ \E resp \in VersionResponses : ~BasicFillSucceeds(resp)
    /\ \E mode \in {"throw", "warn"} :
         IF IsMain(r.task) \/ mode = "throw"
         THEN BasicExit
         ELSE /\ tasks' = [tasks EXCEPT ![r.task] = [stack |-> <<>>, st |-> "failed"]]
              /\ inflight' = inflight \ {r}
              /\ UNCHANGED <<mainPc, outcome>>
    /\ UNCHANGED <<config, units, packageLock, visited, history, fillResult, disk>>

\* `if (p.dependencies) { fillAllResolved(p.dependencies) }`: the nested walk
\* is called and not awaited.
BasicDescend(t) ==
    /\ Running(t)
    /\ TopFrame(t).phase = "afterFill"
    /\ packageLock.entries[CurrentNode(t)].dependencies # <<>>
    /\ tasks' = Append([tasks EXCEPT ![t] = [stack |-> Advanced(t), st |-> "calling"]],
                       [stack |-> <<Frame(packageLock.entries[CurrentNode(t)].dependencies,
                                          TRUE)>>,
                        st |-> "running"])
    /\ UNCHANGED <<config, units, packageLock, mainPc, inflight, visited, history,
                   fillResult, disk, outcome>>

BasicNextEntry(t) ==
    /\ Running(t)
    /\ TopFrame(t).phase = "afterFill"
    /\ packageLock.entries[CurrentNode(t)].dependencies = <<>>
    /\ tasks' = [tasks EXCEPT ![t].stack = Advanced(t)]
    /\ UNCHANGED <<config, units, packageLock, mainPc, inflight, visited, history,
                   fillResult, disk, outcome>>

\* The loop is over: an awaited walk returns to the script, another one ends.
BasicReturn(t) ==
    /\ Running(t)
    /\ TopFrame(t).phase = "loop"
    /\ TopFrame(t).i > Len(TopFrame(t).list)
    /\ IF IsMain(t)
       THEN /\ tasks' = [tasks EXCEPT ![t].stack = <<>>]
            /\ mainPc' = IF mainPc = "awaitPackages" THEN "dependencies" ELSE "write"
       ELSE /\ tasks' = Released([tasks EXCEPT ![t] = [stack |-> <<>>, st |-> "done"]])
            /\ UNCHANGED mainPc
    /\ UNCHANGED <<config, units, packageLock, inflight, visited, history, fillResult,
                   disk, outcome>>

\* await writeFile("package-lock.json", JSON.stringify(packageLock, null, 2))
BasicWriteLock ==
    /\ mainPc = "write"
    /\ file' = Stringify(packageLock)
    /\ writes' = writes + 1
    /\ mainPc' = "install"
    /\ tasks' = [tasks EXCEPT ![1].st = "awaiting"]
    /\ UNCHANGED <<config, units, oldContents, packageLock, inflight, visited, history,
                   fillResult, installStatus, outcome>>

\* The try around spawnSync, once the write has completed.
BasicNpmInstall ==
    /\ mainPc = "install"
    /\ EventLoopIdle
    /\ \E status \in ExitStatuses :
         /\ installStatus' = status
         /\ IF SpawnSyncThrows(status)
            THEN /\ file' = oldContents
                 /\ writes' = writes + 1
                 /\ outcome' = "rejected"
            ELSE /\ outcome' = "fulfilled"
                 /\ UNCHANGED <<file, writes>>
    /\ mainPc' = "done"
    /\ tasks' = [tasks EXCEPT ![1].st = "done"]
    /\ UNCHANGED <<config, units, oldContents, packageLock, inflight, visited, history,
                   fillResult>>

NextBasic ==
    \/ BasicWalkPackages
    \/ BasicWalkDependencies
    \/ BasicWriteLock
    \/ BasicNpmInstall
    \/ \E t \in DOMAIN tasks : BasicSkipEntry(t)
    \/ \E t \in DOMAIN tasks : BasicStartFill(t)
    \/ \E t \in DOMAIN tasks : BasicDescend(t)
    \/ \E t \in DOMAIN tasks : BasicNextEntry(t)
    \/ \E t \in DOMAIN tasks : BasicReturn(t)
    \/ \E r \in inflight : BasicFilled(r)
    \/ \E r \in inflight : BasicFillThrows(r)

BasicSpec == Init /\ [][NextBasic]_vars

\* ================================================================ claims
\* The entries as they were read, before the run.
Old == Parse(oldContents).entries

Now == packageLock.entries

Range(seq) == {seq[i] : i \in DOMAIN seq}

\* The entry whose `dependencies` holds n, 0 for an entry of a top-level mapping.
ParentOf(n) ==
    IF \E m \in Nodes : n \in Range(Old[m].dependencies)
    THEN CHOOSE m \in Nodes : n \in Range(Old[m].dependencies)
    ELSE 0

RECURSIVE IsUnder(_, _)
IsUnder(m, n) == ParentOf(m) # 0 /\ (ParentOf(m) = n \/ IsUnder(ParentOf(m), n))

RECURSIVE TopLevelOf(_)
TopLevelOf(n) == IF ParentOf(n) = 0 THEN n ELSE TopLevelOf(ParentOf(n))

UnderDependencies(n) == TopLevelOf(n) \in Range(packageLock.dependencies)

HasBoth(p) == p.resolved \notin {Undefined, ""} /\ p.integrity.alg \notin {"<undefined>", ""}

\* An entry the walk passes over: the root key, link === true, or complete.
PassedOver(p) == p.key = <<>> \/ p.link \/ HasBoth(p)

\* n is a key of a list that fillAllResolved iterates over.
RECURSIVE Iterated(_)
Iterated(n) ==
    IF ParentOf(n) = 0 THEN TRUE
    ELSE /\ UnderDependencies(n)
         /\ Iterated(ParentOf(n))
         /\ ~PassedOver(Old[ParentOf(n)])

Attempts(n) ==
    Cardinality({i \in DOMAIN fetchLog :
                    fetchLog[i].node = n /\ fetchLog[i].kind = "version"})

Fetches(n) == {i \in DOMAIN fetchLog : fetchLog[i].node = n}

WalkOver == mainPc \in {"write", "install", "done"}

\* The manifest in depth-first order: `packages` key by key, then
\* `dependencies` with every entry followed by its nested dependencies.
RECURSIVE Dfs(_)
Dfs(list) ==
    IF list = <<>> THEN <<>>
    ELSE <<Head(list)>> \o Dfs(Old[Head(list)].dependencies) \o Dfs(Tail(list))

ManifestOrder == packageLock.packages \o Dfs(packageLock.dependencies)

Pos(n) == CHOOSE i \in DOMAIN ManifestOrder : ManifestOrder[i] = n

\* The registry's dist has a tarball and something to take the integrity from.
ValidDist(vm) ==
    /\ vm.hasDist
    /\ vm.dist.tarball \notin {Undefined, ""}
    /\ (vm.dist.integrity.alg \notin {"<undefined>", ""} \/ vm.dist.shasum # <<>>)

\* "sha1-qrvM", the integrity of the shasum "aabbcc".
Sha1OfHexShasum == [alg |-> "sha1", digest |-> <<42, 43, 47, 12>>]

ExpectedIntegrity(dist) ==
    IF dist.integrity.alg \notin {"<undefined>", ""} THEN dist.integrity
    ELSE Sha1OfHexShasum

\* C1 (as claimed): once a fetch was answered with 401, no further request is
\* issued, no write of the lock file happens, and the run ends rejected.
C1_FatalAuthAbortsWalk ==
    unauthorizedAt > 0 =>
        /\ Len(fetchLog) = unauthorizedAt
        /\ writes = 0
        /\ (mainPc = "done" => outcome = "rejected")

\* C2 (as claimed): when npm install has failed after the write, the file
\* holds its pre-run contents again and main() ends rejected.
C2_RollbackOnFailedInstall ==
    (mainPc = "done" /\ installStatus = 1) =>
        (file = oldContents /\ outcome = "rejected")

\* C3 (as claimed): after a run in which every answer was a 200 with a dist
\* carrying a tarball and an integrity, every entry of `packages` and every
\* entry at any depth of `dependencies`, other than the root key and linked
\* entries, has both fields non-empty.
C3_CompleteAfterGoodRun ==
    (mainPc = "done" /\ outcome = "fulfilled" /\ allGood) =>
        \A n \in Nodes :
            (/\ Old[n].key # <<>>
             /\ ~Old[n].link
             /\ (UnderDependencies(n) \/ n \in Range(packageLock.packages)))
            => HasBoth(Now[n])

\* C4 (as claimed): when a call of fillResolved has ended, the entry has both
\* fields non-empty or both fields as they were before the call.
C4_NoHalfPatchedEntry ==
    fillResult.node # 0 =>
        \/ HasBoth(Now[fillResult.node])
        \/ /\ Now[fillResult.node].resolved = fillResult.before.resolved
           /\ Now[fillResult.node].integrity = fillResult.before.integrity

\* Some entry was resolved by the walk: it has both fields now and had not.
SomeEntryResolved == \E n \in Nodes : HasBoth(Now[n]) /\ ~HasBoth(Old[n])

C6_LinkedEntryUntouched ==
    \A n \in Nodes :
        Old[n].link =>
            /\ Fetches(n) = {}
            /\ \A m \in Nodes : (m = n \/ IsUnder(m, n)) => Now[m] = Old[m]

\* A finished run over a lock whose `dependencies` hold a linked entry with an
\* incomplete entry nested under it, next to an entry that was resolved.
C6_Witness ==
    /\ mainPc = "done"
    /\ SomeEntryResolved
    /\ \E n \in Range(packageLock.dependencies), m \in Nodes :
          /\ Old[n].link
          /\ ParentOf(m) = n
          /\ ~HasBoth(Old[m]) /\ ~Old[m].link /\ Old[m].key # <<>>

AllCompleteBefore == \A n \in Nodes : Old[n].key # <<>> => HasBoth(Old[n])

\* C7: on a lock in which every entry but the root key has both fields, the
\* walk issues no request and changes no field.
C7_Idempotent == AllCompleteBefore => (fetchLog = <<>> /\ Now = Old)

\* A finished run over such a lock, with entries in both mappings and nested.
C7_Witness ==
    /\ mainPc = "done"
    /\ AllCompleteBefore
    /\ \E n \in Range(packageLock.packages) : HasBoth(Old[n])
    /\ \E n \in Nodes : ParentOf(n) # 0 /\ UnderDependencies(n) /\ HasBoth(Old[n])

FallbackFound ==
    /\ fillResult.via = "full"
    /\ fillResult.status = 200
    /\ fillResult.hasVersion
    /\ ValidDist(fillResult.vm)

\* C8: when the version request was answered 404 and the full metadata holds
\* p.version with a valid dist, fillResolved returns normally with `resolved`
\* the tarball and `integrity` the integrity of that dist.
C8_FallbackResolves ==
    FallbackFound =>
        /\ fillResult.ended = "returned"
        /\ Now[fillResult.node].resolved = fillResult.vm.dist.tarball
        /\ Now[fillResult.node].integrity = ExpectedIntegrity(fillResult.vm.dist)
        /\ \E i \in Fetches(fillResult.node) :
              /\ fetchLog[i].kind = "version"
              /\ i + 1 \in Fetches(fillResult.node)
              /\ fetchLog[i + 1].kind = "full"

\* The fallback has just resolved an entry from a dist that has only a shasum.
C8_Witness ==
    /\ FallbackFound
    /\ fillResult.vm.dist.integrity.alg = "<undefined>"
    /\ fillResult.before.resolved = Undefined
    /\ HasBoth(Now[fillResult.node])

\* C9: in a run without a 401, failures of fillResolved stop nothing: every
\* entry of an iterated list that is not the root key, not linked and not
\* complete gets exactly one call of fillResolved, no other entry gets one or
\* is changed, and a call that is answered with a good dist resolves its
\* entry whatever happened to the entries before it.
C9_PerEntryIsolation ==
    unauthorizedAt = 0 =>
        /\ \A n \in Nodes :
              /\ Attempts(n) <= 1
              /\ (Attempts(n) = 1) => (Iterated(n) /\ ~PassedOver(Old[n]))
              /\ (Attempts(n) = 0) => Now[n] = Old[n]
              /\ (WalkOver /\ Iterated(n) /\ ~PassedOver(Old[n])) => Attempts(n) = 1
        /\ (fillResult.status = 200 /\ fillResult.hasVersion
              /\ ValidDist(fillResult.vm)) => HasBoth(Now[fillResult.node])
        /\ (mainPc = "done" => outcome = "fulfilled")

\* A finished run without 401 in which an entry failed and a later one,
\* called after it, was resolved.
C9_Witness ==
    /\ mainPc = "done"
    /\ unauthorizedAt = 0
    /\ \E i, j \in DOMAIN fetchLog :
          /\ i < j
          /\ fetchLog[i].node # fetchLog[j].node
          /\ ~HasBoth(Now[fetchLog[i].node])
          /\ HasBoth(Now[fetchLog[j].node])

\* C10: at most one request is in flight, namely the one issued last, on the
\* single call chain of main(); and the requests are issued in the
\* depth-first order of the manifest.
C10_SequentialFetches ==
    /\ Cardinality(inflight) <= 1
    /\ Len(tasks) = 1
    /\ \A r \in inflight :
          /\ fetchLog # <<>>
          /\ fetchLog[Len(fetchLog)].node = r.node
          /\ fetchLog[Len(fetchLog)].kind = r.kind
    /\ \A i \in DOMAIN fetchLog : fetchLog[i].node \in Range(ManifestOrder)
    /\ \A i, j \in DOMAIN fetchLog :
          i < j =>
             \/ Pos(fetchLog[i].node) < Pos(fetchLog[j].node)
             \/ /\ fetchLog[i].node = fetchLog[j].node
                /\ j = i + 1
                /\ fetchLog[i].kind = "version" /\ fetchLog[j].kind = "full"

\* A finished run that fetched for an entry, then for an entry nested under
\* it, then for the entry after it in the same mapping.
C10_Witness ==
    /\ mainPc = "done"
    /\ \E i, j, k \in DOMAIN fetchLog :
          /\ i < j /\ j < k
          /\ ParentOf(fetchLog[j].node) = fetchLog[i].node
          /\ ParentOf(fetchLog[k].node) = 0
          /\ fetchLog[k].node # fetchLog[i].node

\* What a store holds under a key, once loading is over.
Held(store, key) ==
    IF store = "defaultNpmRegistry" THEN defaultNpmRegistry
    ELSE IF store = "scopedRegistries" THEN scopedRegistries[key[1]]
    ELSE IF store = "registryAuthTokens" THEN registryAuthTokens[key[1]]
    ELSE IF store = "registryUsernames" THEN registryUsernames[key[1]]
    ELSE registryPasswords[key[1]]

SameKey(i, j) ==
    /\ assigned[i].store = assigned[j].store
    /\ assigned[i].key = assigned[j].key

\* The last assignment the project-level file made to its key.
LastOfProject(j) ==
    /\ assigned[j].source = "project"
    /\ \A k \in DOMAIN assigned :
          (assigned[k].source = "project" /\ SameKey(j, k)) => k <= j

\* C11: a key that both files set (the default registry, the registry of a
\* scope, the token, username or password of an auth key) holds, after
\* loading, the value the project-level file gave it.
C11_ProjectOverridesUser ==
    loadPc = Loaded =>
        \A i, j \in DOMAIN assigned :
            (assigned[i].source = "home" /\ LastOfProject(j) /\ SameKey(i, j))
            => Held(assigned[j].store, assigned[j].key) = assigned[j].value

\* Loading is over and both files set the token of one auth key, the
\* user-level file with a bare _authToken line and the project-level file
\* with a line that names the key.
C11_Witness ==
    /\ loadPc = Loaded
    /\ \E i, j \in DOMAIN assigned :
          /\ assigned[i].source = "home" /\ assigned[j].source = "project"
          /\ assigned[i].store = "registryAuthTokens"
          /\ SameKey(i, j)
          /\ assigned[i].value # assigned[j].value
          /\ npmrc["home"][Len(npmrc["home"])].kind = "defaultAuthToken"
          /\ npmrc["project"][Len(npmrc["project"])].kind = "authToken"

\* The bits of a string of hex digits, four for each digit.
RECURSIVE HexBits(_)
HexBits(h) ==
    IF h = <<>> THEN <<>>
    ELSE <<h[1] \div 8, (h[1] \div 4) % 2, (h[1] \div 2) % 2, h[1] % 2>>
         \o HexBits(Tail(h))

\* The bits six by six, the last group filled up with zeros.
RECURSIVE Sextets(_)
Sextets(b) ==
    IF b = <<>> THEN <<>>
    ELSE LET g == IF Len(b) < 6 THEN b \o [i \in 1..(6 - Len(b)) |-> 0]
                  ELSE SubSeq(b, 1, 6)
         IN <<32 * g[1] + 16 * g[2] + 8 * g[3] + 4 * g[4] + 2 * g[5] + g[6]>>
            \o (IF Len(b) <= 6 THEN <<>> ELSE Sextets(SubSeq(b, 7, Len(b))))

\* The base64 text of the bytes a hex string stands for, padded with "=".
Base64OfHex(h) ==
    LET c == Sextets(HexBits(h))
    IN c \o [i \in 1..((4 - (Len(c) % 4)) % 4) |-> 64]

\* C12 (as claimed): getIntegrityFromDist returns dist.integrity when it is
\* present; else "sha1-" and the base64 of the decoded bytes when dist.shasum
\* is a hex string (of whole bytes); and undefined when dist is absent, when
\* neither field is present, or when dist.shasum is not a hex string.
C12_IntegrityDerivation ==
    (call.fn = "getIntegrityFromDist" /\ returned.done) =>
        LET d == call.dist.dist
        IN IF ~call.dist.hasDist THEN returned.integrity = UndefinedIntegrity
           ELSE IF d.integrity.alg \notin {"<undefined>", ""}
           THEN returned.integrity = d.integrity
           ELSE IF d.shasum = <<>> THEN returned.integrity = UndefinedIntegrity
           ELSE IF \E i \in DOMAIN d.shasum : d.shasum[i] > 15
           THEN returned.integrity = UndefinedIntegrity
           ELSE IF Len(d.shasum) % 2 = 0
                THEN returned.integrity =
                        [alg |-> "sha1", digest |-> Base64OfHex(d.shasum)]
                ELSE TRUE

\* A request has been built.
Requested == request.name # <<>>

\* C13 (as claimed): when a file holds a registry line (default or scoped)
\* for a URL and a line `//host[:port]/path/:_authToken=` with the host, port
\* and path of that URL, a request to that registry is built with the key the
\* token is stored under, and carries the token.
C13_AuthKeyFindsCredential ==
    \A src \in {"home", "project"} :
        \A i, j \in DOMAIN npmrc[src] :
            (/\ Requested
             /\ npmrc[src][i].kind \in {"registry", "scoped"}
             /\ npmrc[src][j].kind = "authToken"
             /\ npmrc[src][j].key = KeyTextOf(npmrc[src][i].url)
             /\ request.registry = [npmrc[src][i].url EXCEPT !.slashes = 1])
            => /\ request.key = [npmrc[src][j].key EXCEPT !.slashes = 1]
               /\ request.authorization.scheme = "Bearer"

\* The lines in the order they are read: user-level, then project-level.
ReadOrder == npmrc["home"] \o npmrc["project"]

\* The default registry in effect when line g is read.
RECURSIVE DefaultAt(_)
DefaultAt(g) ==
    IF g <= 1 THEN BuiltinRegistry
    ELSE IF ReadOrder[g - 1].kind = "registry"
         THEN [ReadOrder[g - 1].url EXCEPT !.slashes = 1]
         ELSE DefaultAt(g - 1)

\* No line read after g has set the token of the same key.
TokenNotSetAfter(g) ==
    \A k \in DOMAIN assigned :
        (k > g /\ assigned[k].store = "registryAuthTokens")
        => assigned[k].key # assigned[g].key

\* C17: a line `_authToken=<token>` stores the token under the auth key of
\* the default registry in effect when the line is read, the built-in one if
\* no registry= line was read before it; a registry= line read later neither
\* moves nor removes the token; and a request carries a token only if a line
\* stored that token under the key of the request's registry.
C17_BareTokenKeepsItsKey ==
    /\ \A g \in DOMAIN assigned :
          ReadOrder[g].kind = "defaultAuthToken" =>
             /\ assigned[g].store = "registryAuthTokens"
             /\ assigned[g].key = <<getAuthKeyFromRegistryUrl(DefaultAt(g))>>
             /\ assigned[g].value = ReadOrder[g].token
             /\ TokenNotSetAfter(g) =>
                    (/\ assigned[g].key[1] \in DOMAIN registryAuthTokens
                     /\ registryAuthTokens[assigned[g].key[1]] = ReadOrder[g].token)
    /\ \A k \in DOMAIN registryAuthTokens :
          \E g \in DOMAIN assigned :
             /\ assigned[g].store = "registryAuthTokens"
             /\ assigned[g].key = <<k>>
             /\ assigned[g].value = registryAuthTokens[k]
    /\ (Requested /\ request.authorization.scheme = "Bearer") =>
          \E g \in DOMAIN assigned :
             /\ assigned[g].store = "registryAuthTokens"
             /\ assigned[g].key = <<request.key>>
             /\ assigned[g].value = request.authorization.token

\* A bare token line was read under the built-in default, a registry= line
\* for another registry after it, and the request to the new default registry
\* was built without the token, which is still held under the old key.
C17_Witness ==
    /\ Requested
    /\ request.name = <<"a">>
    /\ request.registry # BuiltinRegistry
    /\ request.authorization.scheme = "none"
    /\ \E g, h \in DOMAIN ReadOrder :
          /\ g < h
          /\ ReadOrder[g].kind = "defaultAuthToken"
          /\ ReadOrder[h].kind = "registry"
          /\ DefaultAt(g) = BuiltinRegistry
          /\ KeyTextOf(BuiltinRegistry) \in DOMAIN registryAuthTokens
          /\ registryAuthTokens[KeyTextOf(BuiltinRegistry)] = ReadOrder[g].token

\* base64("u:pw"), base64("u:qw"), base64("v:pw"), base64("v:qw")
BasicCredentials(username, password) ==
    <<29, IF username = <<117>> THEN 19 ELSE 35, 41,
      IF password = <<28, 7, 28, 64>> THEN 48 ELSE 49, 29, 48, 64, 64>>

\* C18: a request carries `Bearer <token>` when a token is stored for its
\* auth key, whatever username and password are stored; `Basic` with the
\* base64 of username, ":" and the decoded password when no token is stored
\* and both username and password are; and no Authorization header otherwise.
C18_CredentialChoice ==
    Requested =>
        LET k == request.key
            h == request.authorization
        IN IF k \in DOMAIN registryAuthTokens
           THEN h.scheme = "Bearer" /\ h.token = registryAuthTokens[k]
           ELSE IF k \in DOMAIN registryUsernames /\ k \in DOMAIN registryPasswords
           THEN /\ h.scheme = "Basic"
                /\ h.basic = BasicCredentials(registryUsernames[k], registryPasswords[k])
           ELSE h.scheme = "none"

\* A request built with the token of a key that also has a username and a
\* password stored.
C18_Witness ==
    /\ Requested
    /\ request.authorization.scheme = "Bearer"
    /\ request.key \in DOMAIN registryUsernames
    /\ request.key \in DOMAIN registryPasswords

\* The segments of a path after its last "node_modules" segment.
RECURSIVE AfterLastNodeModules(_)
AfterLastNodeModules(path) ==
    IF \A j \in DOMAIN path : path[j] # "node_modules" THEN path
    ELSE AfterLastNodeModules(Tail(path))

\* C14 (as claimed): the name passed to fillResolved is the entry's `name`
\* field when it has one; else the real name of a version of the form
\* npm:<realName>@<spec>; else the path without everything up to and
\* including its last node_modules/ segment.
C14_NameDerivation ==
    (call.fn = "packageName" /\ returned.done) =>
        returned.name =
            IF call.p.name # <<>> THEN call.p.name
            ELSE IF Len(call.p.version) = 3 /\ call.p.version[1] = "npm:"
            THEN <<call.p.version[2]>>
            ELSE AfterLastNodeModules(call.p.key)

\* C15 (as claimed): a fillResolved call whose request, the version-specific
\* one or the full-metadata one after a 404, was answered with 401 ends with
\* an error whose statusCode is 401.
C15_UnauthorizedStaysUnauthorized ==
    (fillResult.via \in {"version", "full"} /\ fillResult.status = 401) =>
        (fillResult.ended = "threw" /\ fillResult.statusCode = 401)

\* C16: one call of fillResolved issues at most two requests; the
\* full-metadata request is issued exactly when the version-specific request
\* of the same call was answered with 404, directly after it, and never after
\* a success, a 401 or another failure; and after a 401 on the
\* version-specific request the call has thrown with the entry's two fields
\* as they were before it.
C16_FallbackProtocol ==
    /\ \A n \in Nodes : Cardinality(Fetches(n)) <= 2
    /\ \A i \in DOMAIN fetchLog :
          fetchLog[i].kind = "full" =>
             /\ i > 1
             /\ fetchLog[i - 1].node = fetchLog[i].node
             /\ fetchLog[i - 1].kind = "version"
    /\ \A r \in inflight :
          /\ r.kind = "full" => r.after = 404
          /\ r.kind = "version" => r.after = 0
    /\ fillResult.via = "version" =>
          /\ fillResult.status # 404
          /\ \A i \in Fetches(fillResult.node) : fetchLog[i].kind = "version"
    /\ fillResult.via = "full" => Cardinality(Fetches(fillResult.node)) = 2
    /\ (fillResult.via = "version" /\ fillResult.status = 401) =>
          /\ fillResult.ended = "threw"
          /\ Now[fillResult.node].resolved = fillResult.before.resolved
          /\ Now[fillResult.node].integrity = fillResult.before.integrity

\* A call has ended on the answer to its full-metadata request, its second
\* request, after a call for another entry that ended on a 401 with one.
C16_Witness ==
    /\ fillResult.via = "full"
    /\ Cardinality(Fetches(fillResult.node)) = 2
    /\ unauthorizedAt > 0
    /\ fetchLog[unauthorizedAt].kind = "version"
    /\ Cardinality(Fetches(fetchLog[unauthorizedAt].node)) = 1

\* C19: when every request issued is answered, the run leaves the walks and
\* comes to the write of the lock file; until then and after, no entry has
\* been visited twice by a walk, and the requests issued are at most twice as
\* many as the entries visited.
C19_Termination ==
    /\ [](\A i, j \in DOMAIN visited : i # j => visited[i] # visited[j])
    /\ [](Len(fetchLog) <= 2 * Len(visited))
    /\ <>(mainPc = "write")

\* The walks are over, every entry of the manifest was visited and each visit
\* issued two requests.
C19_Witness ==
    /\ mainPc = "write"
    /\ Len(visited) = MaxNodes
    /\ Len(fetchLog) = 2 * Len(visited)

\* C20 (as claimed): in the basic script the lock file is written only when
\* no request is in flight and no walk is still under way, and what the file
\* holds after the write is the lock with every field the walks assigned.
C20_WriteAfterEveryFill ==
    /\ [][(mainPc = "write" /\ mainPc' = "install") =>
             /\ inflight = {}
             /\ \A t \in DOMAIN tasks : ~IsMain(t) => tasks[t].st \in {"done", "failed"}]_vars
    /\ [](writes > 0 => file = Stringify(packageLock))


====
